---- MODULE Spec2Model ----
(***************************************************************************)
(* Address index (src/index/addrindex.cpp): a script -> transactions index *)
(* kept in an ordered key/value store.  The module models the key layout,  *)
(* the seeded script fingerprint, AddrIndex::WriteBlock, the prefix scan   *)
(* of AddrIndex::DB::ReadAddrIndex and AddrIndex::FindTxsByScript, driven   *)
(* by a small chain that mines, disconnects and reconnects blocks.         *)
(***************************************************************************)
EXTENDS Integers, Sequences, FiniteSets, TLC

(* ------------------------------ bounds --------------------------------- *)
\* Number of distinct AddrId values the fingerprint can produce (2^32 in the
\* source).  There is always one script more than there are AddrIds, so two
\* scripts collide whatever the seed is.
AddrIdSpace == 2
\* Seeds drawn by GetRandInt range over 0..MaxSeed.
MaxSeed == 1
\* Blocks mined on top of the genesis block.
MaxBlocks == 2
\* Outputs of a spending transaction.
MaxVout == 1
\* Validation-interface events waiting for the index worker.
MaxQueue == 1
\* Records of the store that a corruption has made undecodable.
MaxCorrupt == 1

(* -------------------------- program constants -------------------------- *)
DB_ADDR_INDEX == 97
SEED == 0
SPENT == 1
CREATED == 2
\* The key of the sync marker record the index framework keeps in the store.
DB_BEST_BLOCK == 66

(* ------------------------------ domains -------------------------------- *)
Scripts == 1..(AddrIdSpace + 1)
Seeds == 0..MaxSeed
\* Every block's coinbase pays the same script (as in the tests).
CoinbaseScript == 1
\* m_hash_seed before Init assigns it.
Uninit == -1
\* The prevout of a coinbase input: null hash, index with all bits set (of the
\* 31 bits the checker's integers have).
NullOutPoint == [hash |-> 0, n |-> 2147483647]
\* The output vectors a spending transaction may have.
VoutChoices == UNION {[1..n -> Scripts] : n \in 1..MaxVout}
\* No event handled yet.
NoneHandled == [block |-> 0, events |-> ""]
\* The lookup record when no call has just been made.
NoLookup == [script |-> 0, seed |-> 0, fail_at |-> 0, ret |-> "none",
             spends_result |-> <<>>, creations_result |-> <<>>, db_entries |-> <<>>]
\* No FindTxsByScript call is between its call and its return.
NoCall == [script |-> 0, seed |-> 0, snap |-> <<>>, seen |-> {}, batches |-> {}]

VARIABLES
    txs,                \* every transaction ever built; a transaction's hash is its index
    blocks,             \* the block index / block store: block id -> block
    chainActive,        \* the best chain, a sequence of block ids
    queue,              \* BlockConnected / BlockDisconnected events not yet handled
    phase,              \* "constructed" | "started" | "failed"
    m_hash_seed,        \* AddrIndex::m_hash_seed
    m_best_block_index, \* the index's best block: the last one the worker handled (0: none)
    db,                 \* the key/value store: encoded key -> value
    lookup,             \* the last FindTxsByScript call and what it left to its caller
    handled,            \* the run of events the worker handled last for one block
    call                \* the FindTxsByScript call in progress on a caller thread: its
                        \* script and seed, the snapshot of its iterator, and what the
                        \* store did since the call (seen, batches)

vars == <<txs, blocks, chainActive, queue, phase, m_hash_seed, m_best_block_index, db, lookup, handled, call>>

(* ------------------------------ helpers -------------------------------- *)
Range(s) == {s[i] : i \in 1..Len(s)}

RECURSIVE SumTo(_, _)
\* f[1] + ... + f[n]
SumTo(f, n) == IF n = 0 THEN 0 ELSE f[n] + SumTo(f, n - 1)

(* ------------------------------ key codec ------------------------------ *)
\* A 32-bit unsigned integer as the serializer writes it: little-endian.
LE32(n) == <<n % 256, (n \div 256) % 256, (n \div 65536) % 256, (n \div 16777216) % 256>>

FromLE32(b) == b[1] + 256 * b[2] + 65536 * b[3] + 16777216 * b[4]

\* A transaction hash; hashes of the model fit one byte, the 31 others are dropped.
SerHash(h) == <<h % 256>>

\* COutPoint: hash, then the 32-bit output index.
SerOutPoint(o) == SerHash(o.hash) \o LE32(o.n)

\* DBKeyPrefix::SerializationOp: the table tag, then the AddrId.
SerDBKeyPrefix(addr_id) == <<DB_ADDR_INDEX>> \o LE32(addr_id)

\* The key layout of AddrIndexKey (addrindexkeys.h), which the index does not
\* use: the table tag, the key type, the AddrId, the outpoint.
SerAddrIndexKey(key) ==
    <<DB_ADDR_INDEX, key.m_key_type>> \o LE32(key.m_addr_id) \o SerOutPoint(key.m_outpoint)

\* DBKey::SerializationOp: the prefix, the key type, the outpoint.
SerDBKey(key) == SerDBKeyPrefix(key.m_addr_id) \o <<key.m_key_type>> \o SerOutPoint(key.m_outpoint)

\* A seed record kept under a key that is the scan prefix of an AddrId.
SeedKeyInRange == SerDBKeyPrefix(256)

\* seed_key of SetupHashSeed: std::make_pair(DB_ADDR_INDEX, uint8_t(SEED)).
SeedKey == <<DB_ADDR_INDEX, SEED>>

\* The key of the framework's sync marker (block locator) record.
BestBlockKey == <<DB_BEST_BLOCK>>

\* Length of a serialized DBKey: tag, AddrId, key type, hash, output index.
DBKeyLen == 1 + 4 + 1 + 1 + 4

\* CDBIterator::GetKey into a DBKey: fails (FALSE) when the bytes are no DBKey.
GetKeyOk(bytes) == Len(bytes) = DBKeyLen /\ bytes[1] = DB_ADDR_INDEX

UnserDBKey(bytes) ==
    [m_addr_id |-> FromLE32(SubSeq(bytes, 2, 5)),
     m_key_type |-> bytes[6],
     m_outpoint |-> [hash |-> bytes[7], n |-> FromLE32(SubSeq(bytes, 8, 11))]]

\* CDBIterator::GetValue into a DBValue: fails when the record is no (pos, script) pair.
GetValueOk(value) == "script" \in DOMAIN value

RECURSIVE BytesLess(_, _)
\* The store's key order: bytewise, a proper prefix first.
BytesLess(a, b) ==
    IF a = <<>> THEN b # <<>>
    ELSE IF b = <<>> THEN FALSE
    ELSE IF Head(a) # Head(b) THEN Head(a) < Head(b)
    ELSE BytesLess(Tail(a), Tail(b))

RECURSIVE SortKeys(_)
\* The keys of a set in the store's order.
SortKeys(S) ==
    IF S = {} THEN <<>>
    ELSE LET m == CHOOSE k \in S : \A j \in S \ {k} : BytesLess(k, j)
         IN  <<m>> \o SortKeys(S \ {m})

\* NewIterator + Seek: the keys at or after the target, ascending.
Seek(store, target) == SortKeys({k \in DOMAIN store : ~BytesLess(k, target)})

(* --------------------------- script fingerprint ------------------------ *)
\* MurmurHash3(seed, script bytes), reduced to AddrIdSpace values spread over
\* more than one byte of the 32-bit result.
MurmurHash3(seed, script) == ((script + seed) % AddrIdSpace) * 255 + 1

\* AddrIndex::GetAddrId
GetAddrId(seed, script) == MurmurHash3(seed, script)

(* ------------------------------ block store ---------------------------- *)
\* Serialized size of a script: length byte and the bytes.
ScriptSize(s) == 1 + 25

\* ::GetSerializeSize(tx): version, input count, inputs, output count, outputs, lock time.
GetSerializeSize(tx) == 4 + 1 + 41 * Len(tx.vin) + 1 + SumTo([j \in 1..Len(tx.vout) |-> 8 + ScriptSize(tx.vout[j])], Len(tx.vout)) + 4

\* GetSizeOfCompactSize
GetSizeOfCompactSize(n) == IF n < 253 THEN 1 ELSE IF n <= 65535 THEN 3 ELSE 5

\* Offset of transaction i of a block, counted from the end of the block header.
TxOffset(vtx, i) ==
    GetSizeOfCompactSize(Len(vtx)) + SumTo([k \in 1..Len(vtx) |-> GetSerializeSize(txs[vtx[k]])], i - 1)

HeaderSize == 80

\* Bytes a block takes in its file: header, transaction count, transactions.
BlockSize(vtx) == HeaderSize + TxOffset(vtx, Len(vtx) + 1)

\* The script of the output an outpoint names.
PrevScript(o) == txs[o.hash].vout[o.n + 1]

\* CBlockUndo of a block: for each transaction after the coinbase, the scripts of
\* the outputs its inputs spend.
BlockUndo(b) ==
    [i \in 1..(Len(blocks[b].vtx) - 1) |->
        [k \in 1..Len(txs[blocks[b].vtx[i + 1]].vin) |-> PrevScript(txs[blocks[b].vtx[i + 1]].vin[k])]]

\* The transaction that file >> header; fseek(nTxOffset); file >> tx reads:
\* its hash and the block it was read from, or ok = FALSE when no block starts
\* at the position or no transaction starts at the offset.
ReadTxFromDisk(pos) ==
    LET bs == {b \in 1..Len(blocks) : blocks[b].pos = [nFile |-> pos.nFile, nPos |-> pos.nPos]}
    IN  IF bs = {} THEN [ok |-> FALSE]
        ELSE LET b == CHOOSE x \in bs : TRUE
                 is == {i \in 1..Len(blocks[b].vtx) : TxOffset(blocks[b].vtx, i) = pos.nTxOffset}
             IN  IF is = {} THEN [ok |-> FALSE]
                 ELSE [ok |-> TRUE, tx |-> blocks[b].vtx[CHOOSE i \in is : TRUE], block |-> b]

(* ---------------------------- indexing pipeline ------------------------ *)
\* A CDiskTxPos that starts at the end of the block header, without the size
\* of the transaction count.
TxPosNoCompactSize(b, i) ==
    [nFile |-> blocks[b].pos.nFile, nPos |-> blocks[b].pos.nPos,
     nTxOffset |-> TxOffset(blocks[b].vtx, i) - GetSizeOfCompactSize(Len(blocks[b].vtx))]

\* The CDiskTxPos WriteBlock holds while it handles transaction i (1-based).
TxPos(b, i) ==
    [nFile |-> blocks[b].pos.nFile, nPos |-> blocks[b].pos.nPos, nTxOffset |-> TxOffset(blocks[b].vtx, i)]

\* The CREATED entries of transaction i of block b, in output order.
CreatedEntries(b, i, seed) ==
    LET t == blocks[b].vtx[i]
    IN  [j \in 1..Len(txs[t].vout) |->
            [key |-> [m_addr_id |-> GetAddrId(seed, txs[t].vout[j]), m_key_type |-> CREATED,
                      m_outpoint |-> [hash |-> t, n |-> j - 1]],
             value |-> [pos |-> TxPos(b, i), script |-> txs[t].vout[j]]]]

\* The SPENT entries without the skip of the coinbase: its input is handled like
\* any other, with the script of the coinbase's own output as the spent script.
SpentEntriesNoCoinbaseSkip(b, i, seed) ==
    LET t == blocks[b].vtx[i]
        undo == IF i > 1 THEN BlockUndo(b)[i - 1] ELSE [k \in 1..Len(txs[t].vin) |-> txs[t].vout[1]]
    IN  IF blocks[b].nHeight > 0
        THEN [k \in 1..Len(txs[t].vin) |->
                [key |-> [m_addr_id |-> GetAddrId(seed, undo[k]), m_key_type |-> SPENT,
                          m_outpoint |-> txs[t].vin[k]],
                 value |-> [pos |-> TxPos(b, i), script |-> undo[k]]]]
        ELSE <<>>

\* The SPENT entries of transaction i of block b, in input order; none for the
\* coinbase (i = 1) and none in the genesis block.
SpentEntries(b, i, seed) ==
    LET t == blocks[b].vtx[i]
    IN  IF blocks[b].nHeight > 0 /\ i > 1
        THEN [k \in 1..Len(txs[t].vin) |->
                [key |-> [m_addr_id |-> GetAddrId(seed, BlockUndo(b)[i - 1][k]), m_key_type |-> SPENT,
                          m_outpoint |-> txs[t].vin[k]],
                 value |-> [pos |-> TxPos(b, i), script |-> BlockUndo(b)[i - 1][k]]]]
        ELSE <<>>

RECURSIVE BlockEntries(_, _, _)
\* The entries vector of WriteBlock after the first n transactions of block b.
BlockEntries(b, n, seed) ==
    IF n = 0 THEN <<>>
    ELSE BlockEntries(b, n - 1, seed) \o CreatedEntries(b, n, seed) \o SpentEntries(b, n, seed)

\* A batch write that erases a key it finds present instead of overwriting it.
BatchWriteErasesExisting(store, k, v) ==
    IF k \in DOMAIN store THEN [x \in DOMAIN store \ {k} |-> store[x]]
    ELSE [x \in DOMAIN store \cup {k} |-> IF x = k THEN v ELSE store[x]]

\* A batch write that keeps the record it finds under the key and adds the
\* new one next to it.
BatchWriteKeepsExisting(store, k, v) ==
    LET key == IF k \in DOMAIN store THEN k \o <<0>> ELSE k
    IN  [x \in DOMAIN store \cup {key} |-> IF x = key THEN v ELSE store[x]]

\* CDBBatch::Write of one record.
BatchWrite(store, k, v) == [x \in DOMAIN store \cup {k} |-> IF x = k THEN v ELSE store[x]]

RECURSIVE WriteEntries(_, _, _)
\* The store after the first n entries of a batch are applied in order.
WriteEntries(store, entries, n) ==
    IF n = 0 THEN store
    ELSE BatchWrite(WriteEntries(store, entries, n - 1), SerDBKey(entries[n].key), entries[n].value)

\* The entries written one by one instead of in a batch: a failure at the last
\* entry leaves the earlier ones in the store.
WriteToIndexNoBatch(store, entries, batch_ok) ==
    IF batch_ok \/ entries = <<>> THEN [ok |-> batch_ok, db |-> WriteEntries(store, entries, Len(entries))]
    ELSE [ok |-> FALSE, db |-> WriteEntries(store, entries, Len(entries) - 1)]

\* The batch with the result of WriteBatch dropped: success is reported whatever
\* the commit did.
WriteToIndexIgnoresFailure(store, entries, batch_ok) ==
    [ok |-> TRUE, db |-> IF batch_ok THEN WriteEntries(store, entries, Len(entries)) ELSE store]

\* AddrIndex::DB::WriteToIndex: one batch; a failed WriteBatch writes nothing.
WriteToIndex(store, entries, batch_ok) ==
    IF batch_ok THEN [ok |-> TRUE, db |-> WriteEntries(store, entries, Len(entries))]
    ELSE [ok |-> FALSE, db |-> store]

\* A WriteBlock that reads the undo data after it has written the CREATED
\* entries of the block.
WriteBlockUndoReadLate(store, b, seed, undo_ok, batch_ok) ==
    LET entries == BlockEntries(b, Len(blocks[b].vtx), seed)
        created == SelectSeq(entries, LAMBDA e : e.key.m_key_type = CREATED)
    IN  IF blocks[b].nHeight > 0 /\ ~undo_ok
        THEN [ok |-> FALSE, db |-> WriteToIndex(store, created, batch_ok).db]
        ELSE WriteToIndex(store, entries, batch_ok)

\* AddrIndex::WriteBlock
WriteBlock(store, b, seed, undo_ok, batch_ok) ==
    IF blocks[b].nHeight > 0 /\ ~undo_ok THEN [ok |-> FALSE, db |-> store]
    ELSE WriteToIndex(store, BlockEntries(b, Len(blocks[b].vtx), seed), batch_ok)

(* ------------------------------ lookup engine -------------------------- *)
\* NewIterator: the iterator works on the store as it is when it is created.
NewIterator(store) == store

\* An iterator without a snapshot: it shows the store as it is now, except the
\* first key written behind its position since it was created.
IteratorViewLive(snap, live) ==
    LET new == {k \in DOMAIN live : k \notin DOMAIN snap}
    IN  IF new = {} THEN live
        ELSE [k \in DOMAIN live \ {CHOOSE m \in new : \A j \in new \ {m} : BytesLess(m, j)} |-> live[k]]

\* What an iterator created on the store snap shows while the store is live.
IteratorView(snap, live) == snap

RECURSIVE ScanFromNoScriptCheck(_, _, _, _, _, _)
\* The scan without the comparison of the stored script with the queried one.
ScanFromNoScriptCheck(store, keys, i, addr_id, script, result) ==
    IF i > Len(keys) THEN [hang |-> FALSE, result |-> result]
    ELSE IF ~GetKeyOk(keys[i]) \/ UnserDBKey(keys[i]).m_addr_id # addr_id \/ ~GetValueOk(store[keys[i]])
         THEN [hang |-> FALSE, result |-> result]
    ELSE ScanFromNoScriptCheck(store, keys, i + 1, addr_id, script,
                               Append(result, [key |-> UnserDBKey(keys[i]), value |-> store[keys[i]]]))

RECURSIVE ScanFrom(_, _, _, _, _, _)
\* The loop of ReadAddrIndex with the iterator at keys[i].  An entry of another
\* script takes the continue without iter->Next(): the iterator stays where it
\* is and the loop never ends (hang).
ScanFrom(store, keys, i, addr_id, script, result) ==
    IF i > Len(keys) THEN [hang |-> FALSE, result |-> result]
    ELSE IF ~GetKeyOk(keys[i]) \/ UnserDBKey(keys[i]).m_addr_id # addr_id \/ ~GetValueOk(store[keys[i]])
         THEN [hang |-> FALSE, result |-> result]
    ELSE IF store[keys[i]].script # script
         THEN [hang |-> TRUE, result |-> result]
    ELSE ScanFrom(store, keys, i + 1, addr_id, script,
                  Append(result, [key |-> UnserDBKey(keys[i]), value |-> store[keys[i]]]))

\* One iteration of the loop of ReadAddrIndex with the iterator at keys[i]:
\* the position of the iterator after it (0: the loop is left).
ScanIteration(store, keys, i, addr_id, script) ==
    IF ~GetKeyOk(keys[i]) \/ UnserDBKey(keys[i]).m_addr_id # addr_id \/ ~GetValueOk(store[keys[i]])
    THEN 0
    ELSE IF store[keys[i]].script # script THEN i
    ELSE i + 1

\* AddrIndex::DB::ReadAddrIndex
ReadAddrIndex(store, addr_id, script) ==
    ScanFrom(store, Seek(store, SerDBKeyPrefix(addr_id)), 1, addr_id, script, <<>>)

RECURSIVE LoadFrom(_, _, _, _, _)
\* The loop of FindTxsByScript over db_entries from entry i on; fail_at is the
\* entry whose block file cannot be opened (0: none).
LoadFrom(entries, i, fail_at, spends, creations) ==
    IF i > Len(entries) THEN [ret |-> "true", spends_result |-> spends, creations_result |-> creations]
    ELSE LET key == entries[i].key
             rd == ReadTxFromDisk(entries[i].value.pos)
             el == [outpoint |-> key.m_outpoint, tx |-> rd.tx, block |-> rd.block]
         IN  IF i = fail_at \/ ~rd.ok
             THEN [ret |-> "false", spends_result |-> spends, creations_result |-> creations]
             ELSE IF key.m_key_type = SPENT
                  THEN LoadFrom(entries, i + 1, fail_at, Append(spends, el), creations)
             ELSE IF key.m_key_type = CREATED
                  THEN LoadFrom(entries, i + 1, fail_at, spends, Append(creations, el))
             ELSE [ret |-> "false", spends_result |-> spends, creations_result |-> creations]

\* The lookup without the early return on an empty scan result.
FindTxsByScriptNoEmptyCheck(store, seed, script, fail_at) ==
    LET rd == ReadAddrIndex(store, GetAddrId(seed, script), script)
    IN  IF rd.hang
        THEN [ret |-> "hang", spends_result |-> <<>>, creations_result |-> <<>>, db_entries |-> rd.result]
        ELSE [db_entries |-> rd.result] @@ LoadFrom(rd.result, 1, fail_at, <<>>, <<>>)

\* AddrIndex::FindTxsByScript called with empty result vectors: the value it
\* returns ("hang": it never returns) and what the caller's vectors hold.
FindTxsByScript(store, seed, script, fail_at) ==
    LET rd == ReadAddrIndex(store, GetAddrId(seed, script), script)
    IN  IF rd.hang
        THEN [ret |-> "hang", spends_result |-> <<>>, creations_result |-> <<>>, db_entries |-> rd.result]
        ELSE IF Len(rd.result) = 0
        THEN [ret |-> "false", spends_result |-> <<>>, creations_result |-> <<>>, db_entries |-> rd.result]
        ELSE [db_entries |-> rd.result] @@ LoadFrom(rd.result, 1, fail_at, <<>>, <<>>)

(* --------------------------------- chain ------------------------------- *)
Tip == chainActive[Len(chainActive)]

\* Transactions of the blocks of a chain.
ChainTxs(chain) == UNION {Range(blocks[b].vtx) : b \in Range(chain)}

\* Outpoints created and not spent by the blocks of a chain.
UTXO(chain) ==
    UNION {{[hash |-> t, n |-> j - 1] : j \in 1..Len(txs[t].vout)} : t \in ChainTxs(chain)}
    \ UNION {Range(txs[t].vin) : t \in ChainTxs(chain)}

\* Position in the block file of the next block written.
NextBlockPos ==
    [nFile |-> 0, nPos |-> blocks[Len(blocks)].pos.nPos + BlockSize(blocks[Len(blocks)].vtx) + 8]

\* The events the chain hands to a started index.
Notify(q, ev) == IF phase = "started" THEN Append(q, ev) ELSE q

\* The chain moves while the node runs (a failed WriteBlock is a fatal error
\* that shuts the node down) and while the worker's backlog is short; a call
\* of FindTxsByScript is over before the chain moves again.
CanNotify == phase # "failed" /\ (phase = "started" => Len(queue) < MaxQueue) /\ call = NoCall

\* A block with only a coinbase is mined on the tip and connected.
MineEmptyBlock ==
    /\ Len(blocks) <= MaxBlocks
    /\ CanNotify
    /\ txs' = Append(txs, [vin |-> <<NullOutPoint>>, vout |-> <<CoinbaseScript>>])
    /\ blocks' = Append(blocks, [pprev |-> Tip, nHeight |-> Len(chainActive),
                                 vtx |-> <<Len(txs) + 1>>, pos |-> NextBlockPos])
    /\ chainActive' = Append(chainActive, Len(blocks) + 1)
    /\ queue' = Notify(queue, [type |-> "connect", block |-> Len(blocks) + 1])
    /\ lookup' = NoLookup
    /\ UNCHANGED <<phase, m_hash_seed, m_best_block_index, db, handled, call>>

\* A block with a coinbase and one transaction spending an unspent output is
\* mined on the tip and connected.  The transaction is the one of that content
\* when another fork already holds it.
MineSpendBlock ==
    /\ Len(blocks) <= MaxBlocks
    /\ CanNotify
    /\ \E o \in UTXO(chainActive), v \in VoutChoices :
         LET c == [vin |-> <<o>>, vout |-> v]
             old == {t \in 1..Len(txs) : txs[t] = c}
             t == IF old = {} THEN Len(txs) + 2 ELSE CHOOSE x \in old : TRUE
             cb == [vin |-> <<NullOutPoint>>, vout |-> <<CoinbaseScript>>]
         IN  /\ txs' = IF old = {} THEN txs \o <<cb, c>> ELSE Append(txs, cb)
             /\ blocks' = Append(blocks, [pprev |-> Tip, nHeight |-> Len(chainActive),
                                          vtx |-> <<Len(txs) + 1, t>>, pos |-> NextBlockPos])
    /\ chainActive' = Append(chainActive, Len(blocks) + 1)
    /\ queue' = Notify(queue, [type |-> "connect", block |-> Len(blocks) + 1])
    /\ lookup' = NoLookup
    /\ UNCHANGED <<phase, m_hash_seed, m_best_block_index, db, handled, call>>

\* The tip leaves the best chain (a reorg in progress, or invalidateblock).
DisconnectTip ==
    /\ Len(chainActive) > 1
    /\ CanNotify
    /\ chainActive' = SubSeq(chainActive, 1, Len(chainActive) - 1)
    /\ queue' = Notify(queue, [type |-> "disconnect", block |-> Tip])
    /\ lookup' = NoLookup
    /\ UNCHANGED <<txs, blocks, phase, m_hash_seed, m_best_block_index, db, handled, call>>

\* A block of the block store that builds on the tip joins the best chain.
ReconnectBlock ==
    /\ CanNotify
    /\ \E b \in 1..Len(blocks) :
         /\ b \notin Range(chainActive)
         /\ blocks[b].pprev = Tip
         /\ \A i \in 2..Len(blocks[b].vtx) :
              /\ blocks[b].vtx[i] \notin ChainTxs(chainActive)
              /\ Range(txs[blocks[b].vtx[i]].vin) \subseteq UTXO(chainActive)
         /\ chainActive' = Append(chainActive, b)
         /\ queue' = Notify(queue, [type |-> "connect", block |-> b])
    /\ lookup' = NoLookup
    /\ UNCHANGED <<txs, blocks, phase, m_hash_seed, m_best_block_index, db, handled, call>>

(* --------------------------------- index ------------------------------- *)
\* The entries WriteBlock builds for a block.
EntriesOfBlock(b, seed) == Range(BlockEntries(b, Len(blocks[b].vtx), seed))

\* The store holds the entry: its key, with its value.
Holds(store, e) == SerDBKey(e.key) \in DOMAIN store /\ store[SerDBKey(e.key)] = e.value

\* The call in progress, after the store became what it is.
Observe(it, store) ==
    IF it = NoCall THEN it ELSE [it EXCEPT !.seen = @ \cup {store}]

\* The call in progress, after a step of the worker took the store from pre to
\* post with the batch of a block: the entries of the call's script the batch
\* put into the store are remembered.
ObserveBatch(it, pre, post, entries) ==
    LET new == {e \in entries : e.value.script = it.script /\ ~Holds(pre, e)}
    IN  IF it = NoCall THEN it
        ELSE [it EXCEPT !.seen = @ \cup {post},
                        !.batches = IF post = pre \/ new = {} THEN @ ELSE @ \cup {new}]

\* The block the persisted sync marker names (0: the store holds no marker).
ReadBestBlock(store) ==
    IF BestBlockKey \in DOMAIN store THEN store[BestBlockKey].locator ELSE 0

\* The framework persists the sync marker.
WriteBestBlock(store, b) == BatchWrite(store, BestBlockKey, [locator |-> b])

RECURSIVE ChainOf(_)
\* The chain that ends with a block: its ancestors, then the block.
ChainOf(b) == IF b = 0 THEN <<>> ELSE Append(ChainOf(blocks[b].pprev), b)

\* The last block of the marker's chain that is on the best chain (0: none).
ForkPoint(store) ==
    LET common == {i \in 1..Len(ChainOf(ReadBestBlock(store))) :
                      i <= Len(chainActive) /\ chainActive[i] = ChainOf(ReadBestBlock(store))[i]}
    IN  IF common = {} THEN 0 ELSE chainActive[CHOOSE i \in common : \A j \in common : j <= i]

\* CDBIterator::GetValue into an unsigned int: the first four bytes of the
\* record.  Of a seed record they are the seed; of an entry they are the start
\* of its CDiskTxPos, a number that has nothing to do with any seed drawn.
GetValueAsSeed(value) ==
    IF "seed" \in DOMAIN value THEN value.seed
    ELSE (value.pos.nFile + value.pos.nPos + value.pos.nTxOffset) % (MaxSeed + 1)

\* AddrIndex::DB::SetupHashSeed: the seed read from the first record at or
\* after the seed key when the first two bytes of its key are the seed key, or
\* else the seed drawn and handed to Write, whose result (write_ok) is not
\* looked at.
SetupHashSeed(store, drawn, write_ok) ==
    LET iter == Seek(store, SeedKey)
    IN  IF iter # <<>> /\ Len(iter[1]) >= 2 /\ SubSeq(iter[1], 1, 2) = SeedKey
        THEN [seed |-> GetValueAsSeed(store[iter[1]]), db |-> store]
        ELSE [seed |-> drawn,
              db |-> IF write_ok THEN BatchWrite(store, SeedKey, [seed |-> drawn]) ELSE store]

\* What the index does to its store for a disconnected block: AddrIndex
\* overrides no handler for the event and its DB has no erase operation.
DisconnectBlock(store, b) == store

\* The run of handled events after the worker connected block b: a connect
\* that follows the connect and the disconnect of b is a reconnect of b.
AfterConnect(h, b) ==
    IF h.block = b /\ h.events = "connect,disconnect"
    THEN [block |-> b, events |-> "connect,disconnect,connect"]
    ELSE [block |-> b, events |-> "connect"]

\* The run of handled events after the worker saw block b disconnected.
AfterDisconnect(h, b) ==
    IF h.block = b /\ h.events = "connect"
    THEN [block |-> b, events |-> "connect,disconnect"]
    ELSE NoneHandled

\* BlockUntilSyncedToCurrentChain: false for an index that is not started,
\* otherwise true once the backlog is handled.
BlockUntilSyncedToCurrentChain == phase # "constructed"

\* The worker has handled every event of the best chain.
Synced == phase = "started" /\ queue = <<>>

\* The events that bring an index whose sync marker names a block to the best
\* chain: the blocks of the marker's chain that left the best chain are
\* disconnected, tip first, then the best-chain blocks above the fork point are
\* connected in order.
SyncEvents(store) ==
    LET mine == ChainOf(ReadBestBlock(store))
        keep == IF ForkPoint(store) = 0 THEN 0 ELSE blocks[ForkPoint(store)].nHeight + 1
    IN  [i \in 1..(Len(mine) - keep) |-> [type |-> "disconnect", block |-> mine[Len(mine) - i + 1]]]
        \o [i \in 1..(Len(chainActive) - keep) |-> [type |-> "connect", block |-> chainActive[keep + i]]]

\* Start: AddrIndex::Init, then the sync thread queues for the worker what
\* brings the index from its sync marker to the best chain.  write_oks: what
\* the Write of a drawn seed may do (TRUE: the record is written).
StartWith(write_oks) ==
    /\ phase = "constructed"
    /\ \E drawn \in Seeds, write_ok \in write_oks :
         /\ m_hash_seed' = SetupHashSeed(db, drawn, write_ok).seed
         /\ db' = SetupHashSeed(db, drawn, write_ok).db
    /\ phase' = "started"
    /\ m_best_block_index' = ReadBestBlock(db)
    /\ queue' = SyncEvents(db)
    /\ lookup' = NoLookup
    /\ call' = Observe(call, db')
    /\ UNCHANGED <<txs, blocks, chainActive, handled>>

\* Start on a store whose writes succeed.
Start == StartWith({TRUE})

\* Start on a store whose Write may fail.
StartWriteMayFail == StartWith(BOOLEAN)

\* The worker handles a BlockConnected event: WriteBlock, then the best block
\* and the sync marker advance; a failed WriteBlock is fatal and the worker
\* stops without advancing them.  WriteBlock commits its own batch, so the
\* marker is a later write: the process may stop between the two (~marker_ok).
BlockConnected ==
    /\ phase = "started"
    /\ queue # <<>>
    /\ Head(queue).type = "connect"
    /\ \E undo_ok \in BOOLEAN, batch_ok \in BOOLEAN, marker_ok \in BOOLEAN :
         LET r == WriteBlock(db, Head(queue).block, m_hash_seed, undo_ok, batch_ok)
             done == r.ok /\ marker_ok
         IN  /\ db' = IF done THEN WriteBestBlock(r.db, Head(queue).block) ELSE r.db
             /\ m_best_block_index' = IF done THEN Head(queue).block ELSE m_best_block_index
             /\ phase' = IF done THEN "started" ELSE "failed"
             /\ queue' = IF done THEN Tail(queue) ELSE <<>>
             /\ handled' = IF done THEN AfterConnect(handled, Head(queue).block)
                           ELSE IF r.ok THEN [block |-> Head(queue).block, events |-> "connect interrupted"]
                           ELSE [block |-> Head(queue).block, events |-> "connect failed"]
    /\ call' = ObserveBatch(call, db, db', EntriesOfBlock(Head(queue).block, m_hash_seed))
    /\ lookup' = NoLookup
    /\ UNCHANGED <<txs, blocks, chainActive, m_hash_seed>>

\* The worker handles a BlockDisconnected event: the index treats its store
\* for the block, then the best block and the sync marker regress to the parent.
BlockDisconnected ==
    /\ phase = "started"
    /\ queue # <<>>
    /\ Head(queue).type = "disconnect"
    /\ db' = WriteBestBlock(DisconnectBlock(db, Head(queue).block), blocks[Head(queue).block].pprev)
    /\ m_best_block_index' = blocks[Head(queue).block].pprev
    /\ queue' = Tail(queue)
    /\ handled' = AfterDisconnect(handled, Head(queue).block)
    /\ call' = Observe(call, db')
    /\ lookup' = NoLookup
    /\ UNCHANGED <<txs, blocks, chainActive, phase, m_hash_seed>>

\* The index object is destroyed and constructed again, over the same
\* database or (f_wipe) over an emptied one; it is not started.  No call is
\* in progress on an object that is destroyed.
Reconstruct ==
    /\ phase \in {"started", "failed"}
    /\ call = NoCall
    /\ \E f_wipe \in BOOLEAN : db' = IF f_wipe THEN <<>> ELSE db
    /\ phase' = "constructed"
    /\ m_hash_seed' = Uninit
    /\ m_best_block_index' = 0
    /\ queue' = <<>>
    /\ lookup' = NoLookup
    /\ handled' = NoneHandled
    /\ UNCHANGED <<txs, blocks, chainActive, call>>

\* The values a read of m_hash_seed can give: before Init it is uninitialized.
SeedRead == IF m_hash_seed = Uninit THEN Seeds ELSE {m_hash_seed}

\* A caller runs FindTxsByScript on a script with empty result vectors; the
\* block file of entry fail_at, if any, cannot be opened.  The record of the
\* call is kept until the next operation.
Lookup ==
    /\ lookup = NoLookup
    /\ \E script \in Scripts, seed \in SeedRead :
         \E fail_at \in 0..Len(ReadAddrIndex(db, GetAddrId(seed, script), script).result) :
            lookup' = [script |-> script, seed |-> seed, fail_at |-> fail_at]
                        @@ FindTxsByScript(db, seed, script, fail_at)
    /\ UNCHANGED <<txs, blocks, chainActive, queue, phase, m_hash_seed, m_best_block_index, db, handled, call>>

\* A caller thread enters FindTxsByScript: GetAddrId reads the seed and
\* ReadAddrIndex creates its iterator, while the worker goes on.
LookupCall ==
    /\ call = NoCall
    /\ \E script \in Scripts, seed \in SeedRead :
         call' = [script |-> script, seed |-> seed, snap |-> NewIterator(db), seen |-> {db}, batches |-> {}]
    /\ lookup' = NoLookup
    /\ UNCHANGED <<txs, blocks, chainActive, queue, phase, m_hash_seed, m_best_block_index, db, handled>>

\* The call in progress scans what its iterator shows, loads the
\* transactions (every block file opens) and returns; a scan that never ends
\* never returns.
LookupReturn ==
    /\ call # NoCall
    /\ LET view == IteratorView(call.snap, db)
       IN  /\ ~ReadAddrIndex(view, GetAddrId(call.seed, call.script), call.script).hang
           /\ lookup' = [script |-> call.script, seed |-> call.seed, fail_at |-> 0, batches |-> call.batches]
                          @@ FindTxsByScript(view, call.seed, call.script, 0)
    /\ call' = NoCall
    /\ UNCHANGED <<txs, blocks, chainActive, queue, phase, m_hash_seed, m_best_block_index, db, handled>>

Init ==
    /\ txs = <<[vin |-> <<NullOutPoint>>, vout |-> <<CoinbaseScript>>]>>
    /\ blocks = <<[pprev |-> 0, nHeight |-> 0, vtx |-> <<1>>, pos |-> [nFile |-> 0, nPos |-> 8]]>>
    /\ chainActive = <<1>>
    /\ queue = <<>>
    /\ phase = "constructed"
    /\ m_hash_seed = Uninit
    /\ m_best_block_index = 0
    /\ db = <<>>
    /\ lookup = NoLookup
    /\ handled = NoneHandled
    /\ call = NoCall

Next ==
    \/ MineEmptyBlock
    \/ MineSpendBlock
    \/ DisconnectTip
    \/ ReconnectBlock
    \/ Start
    \/ BlockConnected
    \/ BlockDisconnected
    \/ Reconstruct
    \/ Lookup

Spec == Init /\ [][Next]_vars

\* The index over a store whose seed write may fail, without lookups.
NextSeed ==
    \/ MineEmptyBlock
    \/ MineSpendBlock
    \/ DisconnectTip
    \/ ReconnectBlock
    \/ StartWriteMayFail
    \/ BlockConnected
    \/ BlockDisconnected
    \/ Reconstruct

SpecSeed == Init /\ [][NextSeed]_vars

\* The index with lookups that run on caller threads while the worker writes.
NextConcurrent ==
    \/ MineEmptyBlock
    \/ MineSpendBlock
    \/ DisconnectTip
    \/ ReconnectBlock
    \/ Start
    \/ BlockConnected
    \/ BlockDisconnected
    \/ Reconstruct
    \/ LookupCall
    \/ LookupReturn

SpecConcurrent == Init /\ [][NextConcurrent]_vars

\* The index started over a chain whose tip has stopped changing: the chain
\* moves only while the index is not started, and the worker, a thread of its
\* own, handles a queued event whenever one is queued (weak fairness).
NextQuiet ==
    \/ (phase = "constructed" /\ MineEmptyBlock)
    \/ (phase = "constructed" /\ MineSpendBlock)
    \/ (phase = "constructed" /\ DisconnectTip)
    \/ (phase = "constructed" /\ ReconnectBlock)
    \/ Start
    \/ BlockConnected
    \/ BlockDisconnected
    \/ Reconstruct

SpecQuiet ==
    Init /\ [][NextQuiet]_vars /\ WF_vars(BlockConnected) /\ WF_vars(BlockDisconnected)

\* The records of a store inside the key range of an AddrId whose key or
\* value cannot be decoded.
Undecodable(store, addr_id) ==
    {k \in DOMAIN store : /\ Len(k) >= 5
                          /\ SubSeq(k, 1, 5) = SerDBKeyPrefix(addr_id)
                          /\ ~GetKeyOk(k) \/ ~GetValueOk(store[k])}

\* The database is corrupted under the index: an entry loses the end of its
\* value (the script), or the end of its key (the outpoint).
Corrupt ==
    /\ Cardinality(UNION {Undecodable(db, a) : a \in {GetAddrId(sd, sc) : sd \in Seeds, sc \in Scripts}})
          < MaxCorrupt
    /\ \E k \in {x \in DOMAIN db : GetKeyOk(x) /\ GetValueOk(db[x])} :
          \/ db' = [db EXCEPT ![k] = [pos |-> db[k].pos]]
          \/ db' = [x \in (DOMAIN db \ {k}) \cup {SubSeq(k, 1, 6)} |->
                      IF x = SubSeq(k, 1, 6) THEN db[k] ELSE db[x]]
    /\ lookup' = NoLookup
    /\ UNCHANGED <<txs, blocks, chainActive, queue, phase, m_hash_seed, m_best_block_index, handled, call>>

\* The index over a database that can be corrupted.
NextCorrupt ==
    \/ MineEmptyBlock
    \/ MineSpendBlock
    \/ Start
    \/ BlockConnected
    \/ Corrupt
    \/ Lookup

SpecCorrupt == Init /\ [][NextCorrupt]_vars

(* ------------------------------- properties ---------------------------- *)
\* The outputs (transaction, output number) of the blocks of the best chain.
ChainOutputs ==
    UNION {{<<t, j>> : j \in 1..Len(txs[t].vout)} : t \in ChainTxs(chainActive)}

\* The inputs (block, transaction number, input number) of the transactions
\* after the coinbase in the blocks of the best chain.
ChainInputs ==
    UNION {UNION {{<<b, i, k>> : k \in 1..Len(txs[blocks[b].vtx[i]].vin)} : i \in 2..Len(blocks[b].vtx)}
           : b \in Range(chainActive)}

\* The keys of the entries the store holds for a script under a seed.
EntriesOf(store, seed, script) ==
    {k \in DOMAIN store : /\ GetKeyOk(k)
                          /\ UnserDBKey(k).m_addr_id = GetAddrId(seed, script)
                          /\ GetValueOk(store[k])
                          /\ store[k].script = script}

\* Some element of a result vector has the outpoint and the transaction.
HasElement(vec, outpoint, t) ==
    \E x \in 1..Len(vec) : vec[x].outpoint = outpoint /\ vec[x].tx = t

\* C1 (round trip): once the worker has connected the blocks of the best chain,
\* for every output j of every transaction T of these blocks the lookup of the
\* output's script succeeds and its created list holds an element with
\* outpoint (T.hash, j) whose loaded transaction is T.
C1_RoundTrip ==
    Synced =>
        \A o \in ChainOutputs :
            LET r == FindTxsByScript(db, m_hash_seed, txs[o[1]].vout[o[2]], 0)
            IN  /\ r.ret = "true"
                /\ HasElement(r.creations_result, [hash |-> o[1], n |-> o[2] - 1], o[1])

\* C2 (spent symmetry): once the worker has connected the blocks of the best
\* chain, for every input k of every transaction T after the coinbase the lookup
\* of the script of the spent output (from the block's undo data) returns a spent
\* element with outpoint T.vin[k].prevout whose loaded transaction is T.
C2_SpentSymmetry ==
    Synced =>
        \A c \in ChainInputs :
            LET t == blocks[c[1]].vtx[c[2]]
                r == FindTxsByScript(db, m_hash_seed, BlockUndo(c[1])[c[2] - 1][c[3]], 0)
            IN  /\ r.ret = "true"
                /\ HasElement(r.spends_result, txs[t].vin[c[3]], t)

\* C3 (disconnect erases): once the worker has handled every event, the store
\* holds no entry contributed by a block that has left the best chain.
C3_DisconnectErases ==
    Synced =>
        \A b \in (1..Len(blocks)) \ Range(chainActive) :
            \A e \in EntriesOfBlock(b, m_hash_seed) : ~Holds(db, e)

\* Number of elements a lookup put into the caller's two vectors.
ResultCount(r) == Len(r.spends_result) + Len(r.creations_result)

\* Outputs paying a script plus inputs spending an output of the script, in the
\* blocks of the best chain.
ChainCount(script) ==
    Cardinality({o \in ChainOutputs : txs[o[1]].vout[o[2]] = script})
    + Cardinality({c \in ChainInputs : BlockUndo(c[1])[c[2] - 1][c[3]] = script})

\* C4 (exact result count): whenever the worker has handled every event, the
\* lookup of a script returns as many elements as the best chain has outputs
\* paying the script and inputs spending an output of the script.
C4_ExactCount ==
    Synced =>
        \A script \in Scripts :
            ResultCount(FindTxsByScript(db, m_hash_seed, script, 0)) = ChainCount(script)

\* C5 (idempotent connect): from every store the index reaches and for every
\* block, connecting the block, disconnecting it and connecting it again gives
\* the records that connecting it once gives.
C5_IdempotentConnect ==
    m_hash_seed # Uninit =>
        \A b \in 1..Len(blocks) :
            LET once == WriteBlock(db, b, m_hash_seed, TRUE, TRUE).db
            IN  WriteBlock(DisconnectBlock(once, b), b, m_hash_seed, TRUE, TRUE).db = once

\* C5 witness: the worker has connected a block, seen it disconnected and
\* connected it again, and the store holds the block's entries.
C5_Witness ==
    /\ handled.events = "connect,disconnect,connect"
    /\ \A e \in EntriesOfBlock(handled.block, m_hash_seed) : Holds(db, e)

\* Every entry collected and every element delivered by a lookup is of the
\* queried script.
OnlyOwnEntries(r, script) ==
    /\ \A x \in 1..Len(r.db_entries) :
          /\ r.db_entries[x].value.script = script
          /\ Holds(db, r.db_entries[x])
    /\ \A el \in Range(r.spends_result) \cup Range(r.creations_result) :
          \E x \in 1..Len(r.db_entries) : r.db_entries[x].key.m_outpoint = el.outpoint

\* C6 (collision safety): a lookup collects and delivers only entries whose
\* stored script is the queried script, also when another script with the same
\* AddrId has entries in the store.
C6_CollisionSafety ==
    /\ \A script \in Scripts, seed \in SeedRead :
          OnlyOwnEntries(FindTxsByScript(db, seed, script, 0), script)
    /\ lookup.ret # "none" => OnlyOwnEntries(lookup, lookup.script)

\* C6 witness: a lookup collected an entry of its script while a different
\* script with the same AddrId has entries in the store.
C6_Witness ==
    /\ lookup.ret # "none"
    /\ Len(lookup.db_entries) > 0
    /\ \E other \in Scripts \ {lookup.script} :
          /\ GetAddrId(lookup.seed, other) = GetAddrId(lookup.seed, lookup.script)
          /\ EntriesOf(db, lookup.seed, other) # {}

\* C7 (completeness): the lookup of a script returns, and it collects every
\* entry the store holds for the script, also those that sort after an entry
\* of a colliding script.
C7_Completeness ==
    \A script \in Scripts, seed \in SeedRead :
        LET r == FindTxsByScript(db, seed, script, 0)
        IN  /\ r.ret # "hang"
            /\ {SerDBKey(r.db_entries[x].key) : x \in 1..Len(r.db_entries)} = EntriesOf(db, seed, script)

\* C8 as claimed: with no entry for the script in the store and no error, the
\* call returns success with both vectors empty.
C8_EmptyIsSuccess ==
    \A script \in Scripts, seed \in SeedRead :
        EntriesOf(db, seed, script) = {} =>
            LET r == FindTxsByScript(db, seed, script, 0)
            IN  r.ret = "true" /\ ResultCount(r) = 0

\* No record of the AddrId range of a script is in the store.
RangeEmpty(store, seed, script) ==
    {k \in DOMAIN store : GetKeyOk(k) /\ UnserDBKey(k).m_addr_id = GetAddrId(seed, script)} = {}

\* C8 (amended): with no entry for the script in the store the call never
\* returns success: it returns false, as it does on an error, with both vectors
\* empty (with nothing at all in the AddrId range it does return false);
\* success means at least one entry was found and every entry was loaded.
C8_EmptyIsFailure ==
    /\ \A script \in Scripts, seed \in SeedRead :
          LET r == FindTxsByScript(db, seed, script, 0)
          IN  /\ EntriesOf(db, seed, script) = {} => r.ret \in {"false", "hang"} /\ ResultCount(r) = 0
              /\ RangeEmpty(db, seed, script) => r.ret = "false"
              /\ r.ret = "true" => EntriesOf(db, seed, script) # {}
    /\ lookup.ret = "true" => Len(lookup.db_entries) > 0 /\ ResultCount(lookup) = Len(lookup.db_entries)

\* C8 witness: a call without any error returned false with empty vectors
\* because the store, which holds entries of other scripts, has none for the script.
C8_Witness ==
    /\ lookup.ret = "false"
    /\ lookup.fail_at = 0
    /\ lookup.db_entries = <<>>
    /\ ResultCount(lookup) = 0
    /\ \E k \in DOMAIN db : GetKeyOk(k)

\* C9 (no partial results): a call that failed left nothing in the caller's
\* result vectors.
C9_NoPartialResults ==
    lookup.ret = "false" => ResultCount(lookup) = 0

SpentOutPoints(b, seed) ==
    {e.key.m_outpoint : e \in {x \in EntriesOfBlock(b, seed) : x.key.m_key_type = SPENT}}

\* The SPENT keys of a store, decoded.
SpentKeys(store) ==
    {UnserDBKey(k) : k \in {x \in DOMAIN store : GetKeyOk(x) /\ UnserDBKey(x).m_key_type = SPENT}}

\* C11 (coinbase exclusion): no SPENT entry of the store has the null prevout
\* of a coinbase input as its outpoint, and the SPENT entries WriteBlock builds
\* for a block are the inputs of the transactions after the first one only.
C11_CoinbaseExclusion ==
    /\ \A key \in SpentKeys(db) : key.m_outpoint # NullOutPoint
    /\ \A b \in 1..Len(blocks), seed \in Seeds :
          /\ txs[blocks[b].vtx[1]].vin[1] \notin SpentOutPoints(b, seed)
          /\ SpentOutPoints(b, seed) \subseteq
                UNION {Range(txs[blocks[b].vtx[i]].vin) : i \in 2..Len(blocks[b].vtx)}

\* C11 witness: the worker has written a block that holds a coinbase with the
\* null prevout and a spending transaction, and the store holds the SPENT
\* entry of the spending transaction's input.
C11_Witness ==
    \E b \in 2..Len(blocks) :
        /\ m_best_block_index = b
        /\ Len(blocks[b].vtx) > 1
        /\ txs[blocks[b].vtx[1]].vin = <<NullOutPoint>>
        /\ \E key \in SpentKeys(db) : key.m_outpoint = txs[blocks[b].vtx[2]].vin[1]

\* Every entry WriteBlock builds for the block is in the store.
HoldsBlock(store, b, seed) == \A e \in EntriesOfBlock(b, seed) : Holds(store, e)

\* C12 (per-block atomicity): whenever the worker handles the connect of a
\* block, with the undo read or the batch failing or the process stopping
\* after the batch, the store afterwards holds every entry of the block or is
\* the store from before the block; after a failed WriteBlock it is the store
\* from before.
C12_Atomicity ==
    [][BlockConnected =>
          /\ HoldsBlock(db', Head(queue).block, m_hash_seed) \/ db' = db
          /\ handled'.events = "connect failed" => db' = db
          /\ handled'.events # "connect failed" => HoldsBlock(db', Head(queue).block, m_hash_seed)]_vars

\* C12 witness: WriteBlock failed for a block that contributes several
\* entries, and the store holds none of them.
C12_Witness ==
    /\ phase = "failed"
    /\ handled.events = "connect failed"
    /\ Cardinality(EntriesOfBlock(handled.block, m_hash_seed)) >= 2
    /\ \A e \in EntriesOfBlock(handled.block, m_hash_seed) : ~Holds(db, e)

\* Height of the block a marker names (-1: no marker).
MarkerHeight(store) ==
    IF ReadBestBlock(store) = 0 THEN -1 ELSE blocks[ReadBestBlock(store)].nHeight

\* The store holds the entries of the block the sync marker names and of
\* every block below it on that block's chain, each block's under the seed it
\* was written with.
MarkerCovered(store) ==
    \A b \in Range(ChainOf(ReadBestBlock(store))) : \E seed \in Seeds : HoldsBlock(store, b, seed)

\* C13 as claimed: whenever the persisted marker names a block of height h,
\* the store holds the entries of every best-chain block of height <= h.
C13_SyncMarkerBestChain ==
    ReadBestBlock(db) # 0 =>
        \A i \in 1..(MarkerHeight(db) + 1) :
            i <= Len(chainActive) => \E seed \in Seeds : HoldsBlock(db, chainActive[i], seed)

\* C13 (amended): in every state the store holds the entries of every block
\* of the marker's chain up to the block the persisted marker names (these are
\* the best-chain blocks of height <= h when that block is on the best
\* chain); and the marker moves up only in a step of the worker that committed
\* the entries of the block it then names, never in a step whose WriteBlock
\* failed or after which the process stopped.
C13_SyncMarker ==
    /\ [](MarkerCovered(db))
    /\ [](ReadBestBlock(db) \in Range(chainActive) =>
            \A i \in 1..(MarkerHeight(db) + 1) : \E seed \in Seeds : HoldsBlock(db, chainActive[i], seed))
    /\ [][MarkerHeight(db') > MarkerHeight(db) =>
            /\ BlockConnected
            /\ ReadBestBlock(db') = Head(queue).block
            /\ HoldsBlock(db', Head(queue).block, m_hash_seed)
            /\ handled'.events \notin {"connect failed", "connect interrupted"}]_vars

\* C13 witness: WriteBlock failed for a block above the genesis block's child,
\* the persisted marker still names the block's parent, and the store holds
\* the entries of the blocks up to the marker.
C13_Witness ==
    /\ phase = "failed"
    /\ handled.events = "connect failed"
    /\ ReadBestBlock(db) = blocks[handled.block].pprev
    /\ MarkerHeight(db) >= 1
    /\ MarkerCovered(db)

\* The entries (encoded key, value) a store holds for a script under a seed.
ScriptEntries(store, seed, script) ==
    {[key |-> k, value |-> store[k]] : k \in EntriesOf(store, seed, script)}

\* The entries (encoded key, value) a scan collected.
Collected(entries) ==
    {[key |-> SerDBKey(entries[x].key), value |-> entries[x].value] : x \in 1..Len(entries)}

\* C14 (snapshot consistency under concurrency): when a call that ran while
\* the worker wrote returns, the entries it collected are the entries of its
\* script in one of the stores that existed between the call and the return,
\* and of the entries of its script that one batch put into the store during
\* the call it collected all or none.
C14_SnapshotConsistency ==
    [][LookupReturn =>
          /\ \E store \in call.seen :
                Collected(lookup'.db_entries) = ScriptEntries(store, call.seed, call.script)
          /\ \A batch \in call.batches :
                LET got == {e \in batch : [key |-> SerDBKey(e.key), value |-> e.value]
                                            \in Collected(lookup'.db_entries)}
                IN  got = batch \/ got = {}]_vars

\* C14 witness: a call returned entries of its script after the worker had,
\* during the call, committed a batch with several entries of that script.
C14_Witness ==
    /\ lookup.ret = "true"
    /\ "batches" \in DOMAIN lookup
    /\ \E batch \in lookup.batches : Cardinality(batch) >= 2
    /\ Len(lookup.db_entries) > 0

\* The entry keys of a store that are not under the AddrId their script has
\* under the seed.
StrayKeys(store, seed) ==
    {k \in DOMAIN store : GetKeyOk(k) /\ GetValueOk(store[k])
                            /\ UnserDBKey(k).m_addr_id # GetAddrId(seed, store[k].script)}

\* C15 (seed persistence): no step but a wipe changes or removes a seed
\* record, an Init over a store with a seed record loads the record's seed, and
\* so every entry an earlier session left in the store is under the AddrId its
\* script has after the reopen.
C15_SeedPersistence ==
    /\ [][(SeedKey \in DOMAIN db /\ db' # <<>>) =>
            (SeedKey \in DOMAIN db' /\ db'[SeedKey] = db[SeedKey])]_vars
    /\ [][(SeedKey \in DOMAIN db /\ m_hash_seed = Uninit /\ m_hash_seed' # Uninit) =>
            m_hash_seed' = db[SeedKey].seed]_vars
    /\ [](m_hash_seed # Uninit => StrayKeys(db, m_hash_seed) = {})

\* Every entry of every block of the best chain is returned by the lookup of
\* its script.
TipVisible ==
    \A i \in 1..Len(chainActive) : \A e \in EntriesOfBlock(chainActive[i], m_hash_seed) :
        LET r == FindTxsByScript(db, m_hash_seed, e.value.script, 0)
            vec == IF e.key.m_key_type = SPENT THEN r.spends_result ELSE r.creations_result
        IN  /\ r.ret = "true"
            /\ \E x \in 1..Len(vec) : vec[x].outpoint = e.key.m_outpoint

\* A started index over a chain whose tip has stopped
\* changing eventually has handled every event (BlockUntilSyncedToCurrentChain
\* returns true), unless an error stops the worker or the index is closed.
EventuallySynced ==
    (phase = "started") ~> ((Synced /\ BlockUntilSyncedToCurrentChain) \/ phase # "started")

\* C16 (eventual sync): a started index over a chain whose tip has stopped
\* changing eventually has handled every event unless an error stops it, and
\* whenever it has, the entries of every block up to the tip are returned by
\* the lookup of their script.
C16_EventualSync ==
    /\ EventuallySynced
    /\ [](Synced => TipVisible)

\* C17 (decode failures are fatal): a call of FindTxsByScript whose scan meets
\* a record of its AddrId range that it cannot decode does not return true.
C17_DecodeFailuresFatal ==
    \A script \in Scripts :
        (m_hash_seed # Uninit /\ Undecodable(db, GetAddrId(m_hash_seed, script)) # {}) =>
            FindTxsByScript(db, m_hash_seed, script, 0).ret # "true"

\* C18 (lookup termination): for every script, FindTxsByScript returns, and
\* every iteration of the scan loop that it runs leaves the loop or moves the
\* iterator to the next record, also on an entry of another script.
C18_LookupTermination ==
    \A script \in Scripts, seed \in SeedRead :
        LET addr_id == GetAddrId(seed, script)
            keys == Seek(db, SerDBKeyPrefix(addr_id))
            rd == ReadAddrIndex(db, addr_id, script)
        IN  /\ FindTxsByScript(db, seed, script, 0).ret \in {"true", "false"}
            /\ \A i \in 1..(Len(rd.result) + 1) :
                  i <= Len(keys) => ScanIteration(db, keys, i, addr_id, script) \in {0, i + 1}

\* The AddrIds that scripts have under the seeds.
AddrIds == {GetAddrId(seed, script) : seed \in Seeds, script \in Scripts}

\* The entry keys of a store with an AddrId.
KeysOf(store, addr_id) ==
    {k \in DOMAIN store : GetKeyOk(k) /\ UnserDBKey(k).m_addr_id = addr_id}

\* The keys that the seek to the prefix of an AddrId and the ascending
\* iteration visit until a key does not decode to the AddrId.
RangeScan(store, addr_id) ==
    LET keys == Seek(store, SerDBKeyPrefix(addr_id))
    IN  {keys[i] : i \in {x \in 1..Len(keys) :
                            \A j \in 1..x : GetKeyOk(keys[j]) /\ UnserDBKey(keys[j]).m_addr_id = addr_id}}

\* C19 (prefix contiguity): for every AddrId the entry keys with the AddrId
\* are the first keys at or after the prefix, one after the other; the seek to
\* the prefix and the ascending iteration visit exactly these keys, and
\* neither they nor the key the iteration stops at are the seed record or the
\* sync marker.
C19_PrefixContiguity ==
    \A addr_id \in AddrIds :
        LET keys == Seek(db, SerDBKeyPrefix(addr_id))
            own == KeysOf(db, addr_id)
        IN  /\ Len(keys) >= Cardinality(own)
            /\ \A i \in 1..Cardinality(own) : keys[i] \in own
            /\ RangeScan(db, addr_id) = own
            /\ \A i \in 1..(Cardinality(own) + 1) :
                  i <= Len(keys) => keys[i] \notin {SeedKey, BestBlockKey}

\* C19 witness: the store holds the seed record, the sync marker and entries
\* of two AddrIds, and the scan of one AddrId stops at a key of the other.
C19_Witness ==
    /\ SeedKey \in DOMAIN db
    /\ BestBlockKey \in DOMAIN db
    /\ \E a1, a2 \in AddrIds :
          /\ a1 # a2
          /\ Cardinality(KeysOf(db, a1)) >= 2
          /\ KeysOf(db, a2) # {}
          /\ Len(Seek(db, SerDBKeyPrefix(a1))) > Cardinality(KeysOf(db, a1))
          /\ Seek(db, SerDBKeyPrefix(a1))[Cardinality(KeysOf(db, a1)) + 1] \in KeysOf(db, a2)

\* The tuple order of keys of one table: AddrId, key type, outpoint (hash,
\* then index), the AddrId and the index compared as unsigned integers.
TupleLess(k1, k2) ==
    \/ k1.m_addr_id < k2.m_addr_id
    \/ /\ k1.m_addr_id = k2.m_addr_id
       /\ \/ k1.m_key_type < k2.m_key_type
          \/ /\ k1.m_key_type = k2.m_key_type
             /\ \/ k1.m_outpoint.hash < k2.m_outpoint.hash
                \/ /\ k1.m_outpoint.hash = k2.m_outpoint.hash
                   /\ k1.m_outpoint.n < k2.m_outpoint.n

\* C20 (order preservation of the key codec): of any two entry keys the index
\* has written, the serialized one is smaller in the store's byte order
\* exactly when the key is smaller in the tuple order.
C20_OrderPreservation ==
    \A b1, b2 \in {k \in DOMAIN db : GetKeyOk(k)} :
        BytesLess(SerDBKey(UnserDBKey(b1)), SerDBKey(UnserDBKey(b2)))
            <=> TupleLess(UnserDBKey(b1), UnserDBKey(b2))

\* C21 (kind after AddrId): the serialized key of every entry WriteBlock
\* builds starts with the prefix of its AddrId and has the key type in the byte
\* after it, and the one seek to the prefix with the ascending iteration
\* visits every entry of the AddrId that the store holds, SPENT and CREATED.
C21_KindAfterAddrId ==
    m_hash_seed # Uninit =>
        \A b \in 1..Len(blocks) : \A e \in EntriesOfBlock(b, m_hash_seed) :
            /\ SubSeq(SerDBKey(e.key), 1, 5) = SerDBKeyPrefix(e.key.m_addr_id)
            /\ SerDBKey(e.key)[6] = e.key.m_key_type
            /\ Holds(db, e) => SerDBKey(e.key) \in RangeScan(db, e.key.m_addr_id)

\* C21 witness: the store holds a SPENT and a CREATED entry of one script, and
\* one lookup of the script returned both.
C21_Witness ==
    /\ lookup.ret = "true"
    /\ Len(lookup.spends_result) > 0
    /\ Len(lookup.creations_result) > 0
    /\ \E k1, k2 \in KeysOf(db, GetAddrId(lookup.seed, lookup.script)) :
          /\ UnserDBKey(k1).m_key_type = SPENT
          /\ UnserDBKey(k2).m_key_type = CREATED
          /\ {k1, k2} \subseteq RangeScan(db, GetAddrId(lookup.seed, lookup.script))

\* The entry keys of a store.
EntryKeys(store) == {k \in DOMAIN store : GetKeyOk(k)}

\* C22 (entries are never mutated in place): no step of the index replaces
\* the value under an existing entry key by a different value; entry keys
\* appear only when the worker connects a block and disappear only when it
\* handles a disconnect or the database is wiped.
C22_NeverMutated ==
    /\ [][\A k \in EntryKeys(db) \cap EntryKeys(db') : db'[k] = db[k]]_vars
    /\ [][(EntryKeys(db') \ EntryKeys(db) # {}) => BlockConnected]_vars
    /\ [][(EntryKeys(db) \ EntryKeys(db') # {}) => (BlockDisconnected \/ db' = <<>>)]_vars

\* The entries WriteBlock builds for transaction i (1-based) of block b.
EntriesOfTx(b, i, seed) ==
    Range(CreatedEntries(b, i, seed)) \cup Range(SpentEntries(b, i, seed))

\* C23 (transaction position): every entry WriteBlock builds for transaction
\* i of a block of n transactions carries the file and the offset of the block
\* and, as transaction offset, the size of the compact-size encoding of n plus
\* the serialized sizes of the transactions before i; reading the header at
\* the block position and seeking forward by the transaction offset reads
\* transaction i of that block.
C23_TransactionPosition ==
    m_hash_seed # Uninit =>
        \A b \in 1..Len(blocks) : \A i \in 1..Len(blocks[b].vtx) :
            \A e \in EntriesOfTx(b, i, m_hash_seed) :
                /\ e.value.pos.nFile = blocks[b].pos.nFile
                /\ e.value.pos.nPos = blocks[b].pos.nPos
                /\ e.value.pos.nTxOffset =
                      GetSizeOfCompactSize(Len(blocks[b].vtx))
                        + SumTo([k \in 1..Len(blocks[b].vtx) |-> GetSerializeSize(txs[blocks[b].vtx[k]])], i - 1)
                /\ ReadTxFromDisk(e.value.pos) = [ok |-> TRUE, tx |-> blocks[b].vtx[i], block |-> b]

\* C23 witness: a lookup returned, for an entry of the second transaction of
\* a block, that transaction and that block.
C23_Witness ==
    /\ lookup.ret = "true"
    /\ \E x \in 1..Len(lookup.db_entries) :
          LET e == lookup.db_entries[x]
              rd == ReadTxFromDisk(e.value.pos)
          IN  /\ e.value.pos.nTxOffset > GetSizeOfCompactSize(2)
              /\ rd.ok
              /\ Len(blocks[rd.block].vtx) >= 2
              /\ rd.tx = blocks[rd.block].vtx[2]
              /\ \E y \in 1..Len(lookup.spends_result) :
                    /\ lookup.spends_result[y].tx = rd.tx
                    /\ lookup.spends_result[y].block = rd.block

\* C24 (connect fails cleanly on an undo read failure): for every block above
\* the genesis block, WriteBlock with an undo record that cannot be read
\* returns false and leaves the store as it was, with no CREATED and no SPENT
\* entry of the block added.
C24_UndoFailureClean ==
    m_hash_seed # Uninit =>
        \A b \in 1..Len(blocks) : \A batch_ok \in BOOLEAN :
            blocks[b].nHeight > 0 =>
                LET r == WriteBlock(db, b, m_hash_seed, FALSE, batch_ok)
                IN  /\ ~r.ok
                    /\ r.db = db
                    /\ \A e \in EntriesOfBlock(b, m_hash_seed) : Holds(r.db, e) => Holds(db, e)

\* C24 witness: the worker's WriteBlock failed for a block above the genesis
\* block that has CREATED and SPENT entries, the store holds none of them, and
\* it is the store a WriteBlock without readable undo data leaves.
C24_Witness ==
    /\ phase = "failed"
    /\ handled.events = "connect failed"
    /\ blocks[handled.block].nHeight > 0
    /\ \E e1, e2 \in EntriesOfBlock(handled.block, m_hash_seed) :
          e1.key.m_key_type = CREATED /\ e2.key.m_key_type = SPENT
    /\ \A e \in EntriesOfBlock(handled.block, m_hash_seed) : SerDBKey(e.key) \notin DOMAIN db
    /\ WriteBlock(db, handled.block, m_hash_seed, FALSE, TRUE) = [ok |-> FALSE, db |-> db]

\* The seed record of the store holds the in-memory seed.
SeedPersisted == SeedKey \in DOMAIN db /\ db[SeedKey] = [seed |-> m_hash_seed]

\* C25 (in-memory seed discipline): the seed of an index object changes only
\* in Init, from its uninitialized state, and every AddrId that the worker or
\* a lookup computes is computed from the seed Init wrote, which is the seed
\* of the seed record.
C25_SeedDiscipline ==
    /\ [][(m_hash_seed' # m_hash_seed /\ ~Reconstruct) =>
            (m_hash_seed = Uninit /\ phase = "constructed" /\ phase' = "started")]_vars
    /\ [][BlockConnected => (m_hash_seed # Uninit /\ SeedPersisted)]_vars
    /\ [][Lookup => (m_hash_seed # Uninit /\ lookup'.seed = m_hash_seed /\ SeedPersisted)]_vars

\* C26 (seed durability at Init): whenever Init has completed, the store
\* holds a seed record and its seed is the in-memory seed, so that no block is
\* indexed under a seed that is not persisted.
C26_SeedDurability ==
    /\ phase # "constructed" => (SeedKey \in DOMAIN db /\ db[SeedKey].seed = m_hash_seed)
    /\ \A k \in EntryKeys(db) : SeedKey \in DOMAIN db

\* The records of a store without the sync marker.
Records(store) == {<<k, store[k]>> : k \in DOMAIN store \ {BestBlockKey}}

\* C27 (replay idempotence): connecting a block a second time gives the
\* records that connecting it once gave, and whenever the worker connects a
\* block whose entries the store already holds (a replay from an older sync
\* marker), the records of the store stay as they are: none is added and no
\* value changes.
C27_ReplayIdempotence ==
    /\ [](m_hash_seed # Uninit =>
            \A b \in 1..Len(blocks) :
                LET once == WriteBlock(db, b, m_hash_seed, TRUE, TRUE)
                    again == WriteBlock(once.db, b, m_hash_seed, TRUE, TRUE)
                IN  again.ok /\ Records(again.db) = Records(once.db))
    /\ [][(BlockConnected /\ HoldsBlock(db, Head(queue).block, m_hash_seed)) =>
            Records(db') = Records(db)]_vars

\* C27 witness: after a restart the worker is about to connect, from an older
\* sync marker, a block with several entries that the store already holds, and
\* WriteBlock for it gives the store as it is.
C27_Witness ==
    /\ phase = "started"
    /\ queue # <<>>
    /\ Head(queue).type = "connect"
    /\ ReadBestBlock(db) = blocks[Head(queue).block].pprev
    /\ Cardinality(EntriesOfBlock(Head(queue).block, m_hash_seed)) >= 2
    /\ HoldsBlock(db, Head(queue).block, m_hash_seed)
    /\ WriteBlock(db, Head(queue).block, m_hash_seed, TRUE, TRUE).db = db

====
